---- MODULE Spec2Model ----
(***************************************************************************)
(* Model of the CatAPI Streamlit application: the client-side rate         *)
(* limiter, the tag fetch with its retry loop and cache, the image fetch,  *)
(* and the favorites mapping with its two remove controls.                 *)
(*   src/streamlit_app.py, src/pages/favorites.py                          *)
(***************************************************************************)
EXTENDS Integers, Sequences, FiniteSets, TLC

(***************************************************************************)
(* Program constants (src/streamlit_app.py:10-12, 33)                      *)
(***************************************************************************)
API_BASE_URL == "https://cataas.com"
RATE_LIMIT_SECONDS == 2
MAX_RETRIES == 3
CACHE_TTL == 3600

(***************************************************************************)
(* Bounds of the model                                                     *)
(***************************************************************************)
\* time.time() at the first call; any value >= RATE_LIMIT_SECONDS behaves alike
StartTime == 10
\* how many times the clock may be advanced by the environment
MaxTicks == 2
\* how many favorites operations one behaviour performs
MaxOps == 3
\* how many operations follow the pre-filled mapping in SpecFull
MaxFullOps == 2
\* longest JSON array the tags endpoint returns
MaxTags == 2
\* how many fetch operations one behaviour starts
MaxCalls == 3

(***************************************************************************)
(* URLs are Python strings.  The universe of URL strings of the model and  *)
(* the MD5 hex digest of each (hashlib.md5(url.encode()).hexdigest()).     *)
(* The fourth string is not a URL at all: it is the digest of the first,   *)
(* which save_to_favorites accepts like any other string.                  *)
(***************************************************************************)
U_cute   == "https://cataas.com/cat/cute?width=400&height=400"
U_orange == "https://cataas.com/cat/orange?width=400&height=400"
U_evil   == "http://evil.example/cat.jpg"
U_digest == "c0d813c8b4544133679062c2c2251048"

Urls == {U_cute, U_orange, U_evil, U_digest}

FavTags == {"cute", "orange"}

\* fifty further URLs as get_cat_image builds them, widths 101..150
PreloadUrls ==
    <<
       "https://cataas.com/cat/cute?width=101&height=400",
       "https://cataas.com/cat/cute?width=102&height=400",
       "https://cataas.com/cat/cute?width=103&height=400",
       "https://cataas.com/cat/cute?width=104&height=400",
       "https://cataas.com/cat/cute?width=105&height=400",
       "https://cataas.com/cat/cute?width=106&height=400",
       "https://cataas.com/cat/cute?width=107&height=400",
       "https://cataas.com/cat/cute?width=108&height=400",
       "https://cataas.com/cat/cute?width=109&height=400",
       "https://cataas.com/cat/cute?width=110&height=400",
       "https://cataas.com/cat/cute?width=111&height=400",
       "https://cataas.com/cat/cute?width=112&height=400",
       "https://cataas.com/cat/cute?width=113&height=400",
       "https://cataas.com/cat/cute?width=114&height=400",
       "https://cataas.com/cat/cute?width=115&height=400",
       "https://cataas.com/cat/cute?width=116&height=400",
       "https://cataas.com/cat/cute?width=117&height=400",
       "https://cataas.com/cat/cute?width=118&height=400",
       "https://cataas.com/cat/cute?width=119&height=400",
       "https://cataas.com/cat/cute?width=120&height=400",
       "https://cataas.com/cat/cute?width=121&height=400",
       "https://cataas.com/cat/cute?width=122&height=400",
       "https://cataas.com/cat/cute?width=123&height=400",
       "https://cataas.com/cat/cute?width=124&height=400",
       "https://cataas.com/cat/cute?width=125&height=400",
       "https://cataas.com/cat/cute?width=126&height=400",
       "https://cataas.com/cat/cute?width=127&height=400",
       "https://cataas.com/cat/cute?width=128&height=400",
       "https://cataas.com/cat/cute?width=129&height=400",
       "https://cataas.com/cat/cute?width=130&height=400",
       "https://cataas.com/cat/cute?width=131&height=400",
       "https://cataas.com/cat/cute?width=132&height=400",
       "https://cataas.com/cat/cute?width=133&height=400",
       "https://cataas.com/cat/cute?width=134&height=400",
       "https://cataas.com/cat/cute?width=135&height=400",
       "https://cataas.com/cat/cute?width=136&height=400",
       "https://cataas.com/cat/cute?width=137&height=400",
       "https://cataas.com/cat/cute?width=138&height=400",
       "https://cataas.com/cat/cute?width=139&height=400",
       "https://cataas.com/cat/cute?width=140&height=400",
       "https://cataas.com/cat/cute?width=141&height=400",
       "https://cataas.com/cat/cute?width=142&height=400",
       "https://cataas.com/cat/cute?width=143&height=400",
       "https://cataas.com/cat/cute?width=144&height=400",
       "https://cataas.com/cat/cute?width=145&height=400",
       "https://cataas.com/cat/cute?width=146&height=400",
       "https://cataas.com/cat/cute?width=147&height=400",
       "https://cataas.com/cat/cute?width=148&height=400",
       "https://cataas.com/cat/cute?width=149&height=400",
       "https://cataas.com/cat/cute?width=150&height=400"
    >>

Md5Digests ==
    {
       <<"https://cataas.com/cat/cute?width=400&height=400", "c0d813c8b4544133679062c2c2251048">>,
       <<"https://cataas.com/cat/orange?width=400&height=400", "6cf72167561fd2485de5bdc75bee6590">>,
       <<"http://evil.example/cat.jpg", "5af6db48e626b6b387898dcf201fdeb1">>,
       <<"c0d813c8b4544133679062c2c2251048", "e8edebeaadd2ab17a609f7f02e2f91bd">>,
       <<"https://cataas.com/cat/cute?width=101&height=400", "08c729bf555abbf1a7c1ae6b48df81bf">>,
       <<"https://cataas.com/cat/cute?width=102&height=400", "737a0009904f3e99222833201dd111b0">>,
       <<"https://cataas.com/cat/cute?width=103&height=400", "1e3c8d23ebb93f085d957f6e3e142c69">>,
       <<"https://cataas.com/cat/cute?width=104&height=400", "15a81a7fd2b250898d7f9a8ea6553e51">>,
       <<"https://cataas.com/cat/cute?width=105&height=400", "22016c828278a5f0d21ffeafecfb5c20">>,
       <<"https://cataas.com/cat/cute?width=106&height=400", "84a6a212ed52a6dea01dad46558fe36a">>,
       <<"https://cataas.com/cat/cute?width=107&height=400", "2427e8075ac534ce6b89a4977e7242fd">>,
       <<"https://cataas.com/cat/cute?width=108&height=400", "8832c8c0c83f80433b2f1435f9312a2c">>,
       <<"https://cataas.com/cat/cute?width=109&height=400", "37ac9062aaf376380510e3453ec0ead4">>,
       <<"https://cataas.com/cat/cute?width=110&height=400", "84bfe45a2928cca12df3c9dab9763e81">>,
       <<"https://cataas.com/cat/cute?width=111&height=400", "8852c203e6088022fe5e586d6c737d54">>,
       <<"https://cataas.com/cat/cute?width=112&height=400", "55231e3f7e3fa7cac03da7a07828518d">>,
       <<"https://cataas.com/cat/cute?width=113&height=400", "3dd7bb1444fc59d00abd5e78b8b48e14">>,
       <<"https://cataas.com/cat/cute?width=114&height=400", "a15487e1efe1c001692ab29e1bb7da50">>,
       <<"https://cataas.com/cat/cute?width=115&height=400", "76337e72c686c99ae09d2991e9a5835f">>,
       <<"https://cataas.com/cat/cute?width=116&height=400", "51a90a5ee058ce9aa1339e3323b52f8c">>,
       <<"https://cataas.com/cat/cute?width=117&height=400", "8335df227c1bff70a1f7b7d3ed5b8d95">>,
       <<"https://cataas.com/cat/cute?width=118&height=400", "9fe7daa432cf6b172fa9757755940d26">>,
       <<"https://cataas.com/cat/cute?width=119&height=400", "1568db0be737f9c836129a950e07bfc8">>,
       <<"https://cataas.com/cat/cute?width=120&height=400", "cbce366c69c09c74377dcb59518b1e70">>,
       <<"https://cataas.com/cat/cute?width=121&height=400", "42deb6c0a05f7275b85050fdcca60787">>,
       <<"https://cataas.com/cat/cute?width=122&height=400", "75dd54faf3e4b9c626463a5d57906aee">>,
       <<"https://cataas.com/cat/cute?width=123&height=400", "47ec5ed0f7339be2bb4c9ee7ca587ab0">>,
       <<"https://cataas.com/cat/cute?width=124&height=400", "02b717b6ad5935ee5705dabdea6f0d73">>,
       <<"https://cataas.com/cat/cute?width=125&height=400", "3d2eca907b996c664523ca6ffaedc319">>,
       <<"https://cataas.com/cat/cute?width=126&height=400", "59b1233c5e672983cc4ece22664406d7">>,
       <<"https://cataas.com/cat/cute?width=127&height=400", "9d866ced8d7e1523c35f33c9438db229">>,
       <<"https://cataas.com/cat/cute?width=128&height=400", "50277abe5832ccfa610f16f817fc619f">>,
       <<"https://cataas.com/cat/cute?width=129&height=400", "23172fcf5d676034e25df8d454655479">>,
       <<"https://cataas.com/cat/cute?width=130&height=400", "8bf49fb94685b794b4245609d9bf6e84">>,
       <<"https://cataas.com/cat/cute?width=131&height=400", "ac3536d23184e4f0870be3d6993c8d11">>,
       <<"https://cataas.com/cat/cute?width=132&height=400", "0b56c1ad3d71a096e77b93108b00cd11">>,
       <<"https://cataas.com/cat/cute?width=133&height=400", "fb0ba1a06fb0e42a8a591489bad9de1f">>,
       <<"https://cataas.com/cat/cute?width=134&height=400", "0c2ba227a9c58bb85599735fe74bddb9">>,
       <<"https://cataas.com/cat/cute?width=135&height=400", "3211772ad361da3ff3702860ca6a38e3">>,
       <<"https://cataas.com/cat/cute?width=136&height=400", "1926930fa3f7ae87fd5542f330293cb4">>,
       <<"https://cataas.com/cat/cute?width=137&height=400", "6d8e8c54ac0e6722ac21310e1fe09daa">>,
       <<"https://cataas.com/cat/cute?width=138&height=400", "f411e3570e101ed795b8bae54753a88f">>,
       <<"https://cataas.com/cat/cute?width=139&height=400", "0802649e342c4a284883e130499d410d">>,
       <<"https://cataas.com/cat/cute?width=140&height=400", "931730f2011b716af103dfe9529a7d3d">>,
       <<"https://cataas.com/cat/cute?width=141&height=400", "e88c43e4f5b20b57b953f694314e5170">>,
       <<"https://cataas.com/cat/cute?width=142&height=400", "1a4092133049971cf96cbd8d0bd43971">>,
       <<"https://cataas.com/cat/cute?width=143&height=400", "222f3c8479dcc2364c572d0aecb0b5b7">>,
       <<"https://cataas.com/cat/cute?width=144&height=400", "968f76303a43a95640270e84ff4219b2">>,
       <<"https://cataas.com/cat/cute?width=145&height=400", "f7859c2b227039bda587f3c5bdd9bf07">>,
       <<"https://cataas.com/cat/cute?width=146&height=400", "c0fe3228599d376ae2dc338f52f53f2a">>,
       <<"https://cataas.com/cat/cute?width=147&height=400", "f5fcd04bd538e38f329372bea7ffc167">>,
       <<"https://cataas.com/cat/cute?width=148&height=400", "3cc8fd3fca8302611fe976366281d514">>,
       <<"https://cataas.com/cat/cute?width=149&height=400", "2f87cea31876f634a1b693eb56091260">>,
       <<"https://cataas.com/cat/cute?width=150&height=400", "606f78a7b7520cfd4ac464b6f2528b7f">>
    }

md5_broken(u) == "d41d8cd98f00b204e9800998ecf8427e"

\* hashlib.md5(image_url.encode()).hexdigest()
md5_hexdigest(u) == (CHOOSE p \in Md5Digests : p[1] = u)[2]

\* str.startswith(API_BASE_URL) on the URL strings of the model
StartsWithBase(u) ==
    u \in {U_cute, U_orange} \/ \E i \in 1..Len(PreloadUrls) : u = PreloadUrls[i]

\* datetime.now().isoformat(): date and time of day of the clock reading
isoformat(t) == [date |-> t \div 86400, time |-> t % 86400]

VARIABLES
    now,             \* the clock read by time.time() and datetime.now()
    ticks,           \* how often the environment has advanced the clock
    last_api_call,   \* st.session_state.last_api_call
    api_call_count,  \* st.session_state.api_call_count
    favorites,       \* st.session_state.favorites: key -> {url, tag, timestamp}
    ops_left,        \* favorites operations the behaviour may still perform
    fav_log,         \* the last favorites operation and the one before it
    tags_cache,      \* the st.cache_data entry of fetch_tags
    pc,              \* where the running fetch operation stands
    attempt,         \* loop variable of fetch_tags
    call,            \* what the running (or last) fetch operation did
    permits,         \* clock readings of the permitted rate_limit_check calls
    calls_left,      \* fetch operations the behaviour may still start
    tags_returned    \* the last value the body of fetch_tags returned, and when

vars == <<now, ticks, last_api_call, api_call_count, favorites, ops_left,
          fav_log, tags_cache, pc, attempt, call, permits, calls_left,
          tags_returned>>

favVars == <<favorites, ops_left, fav_log>>
fetchVars == <<last_api_call, api_call_count, tags_cache, pc, attempt, call,
               permits, calls_left, tags_returned>>

(***************************************************************************)
(* Favorites                                                               *)
(***************************************************************************)
EmptyDict == [k \in {} |-> 0]

NoOp == [op |-> "none", url |-> "", key |-> "", before |-> EmptyDict, at |-> 0,
         prev_op |-> "none", prev_url |-> "", prev_before |-> EmptyDict]

\* the log after operation op on (url, key), made in mapping `before`
Logged(op, url, key, before) ==
    [op |-> op, url |-> url, key |-> key, before |-> before, at |-> now,
     prev_op |-> fav_log.op, prev_url |-> fav_log.url,
     prev_before |-> fav_log.before]

\* dict.pop(k, None): the mapping without k, unchanged when k is absent
dict_pop(d, k) == [x \in (DOMAIN d) \ {k} |-> d[x]]

\* d[k] = v
dict_set(d, k, v) == [x \in (DOMAIN d) \cup {k} |-> IF x = k THEN v ELSE d[x]]

save_to_favorites_keep(favs, image_url, tag, t) ==
    LET image_hash == md5_hexdigest(image_url)
    IN  IF image_hash \in DOMAIN favs THEN favs
        ELSE dict_set(favs, image_hash,
                      [url |-> image_url, tag |-> tag, timestamp |-> isoformat(t)])

\* save_to_favorites(image_url, tag) called at clock reading t
save_to_favorites(favs, image_url, tag, t) ==
    LET image_hash == md5_hexdigest(image_url)
    IN  dict_set(favs, image_hash,
                 [url |-> image_url, tag |-> tag, timestamp |-> isoformat(t)])

\* the key display_favorites hands to pop for the entry it shows
display_pop_key(favorite) == favorite.url

\* the key the favorites page hands to pop for the item (key, fav) it shows
page_pop_key_wrong(key, fav) == fav.url

page_pop_key(key, fav) == key

SaveToFavorites(image_url, tag) ==
    /\ ops_left > 0
    /\ favorites' = save_to_favorites(favorites, image_url, tag, now)
    /\ fav_log' = Logged("save", image_url, md5_hexdigest(image_url), favorites)
    /\ ops_left' = ops_left - 1
    /\ UNCHANGED <<now, ticks>>
    /\ UNCHANGED fetchVars

\* the "Remove <tag>" button display_favorites draws for the entry under key
DisplayFavoritesRemove(key) ==
    /\ ops_left > 0
    /\ key \in DOMAIN favorites
    /\ favorites' = dict_pop(favorites, display_pop_key(favorites[key]))
    /\ fav_log' = Logged("remove_display", favorites[key].url, key, favorites)
    /\ ops_left' = ops_left - 1
    /\ UNCHANGED <<now, ticks>>
    /\ UNCHANGED fetchVars

\* the "Remove" button pages/favorites.py draws for the item under key
FavoritesPageRemove(key) ==
    /\ ops_left > 0
    /\ key \in DOMAIN favorites
    /\ favorites' = dict_pop(favorites, page_pop_key(key, favorites[key]))
    /\ fav_log' = Logged("remove_page", favorites[key].url, key, favorites)
    /\ ops_left' = ops_left - 1
    /\ UNCHANGED <<now, ticks>>
    /\ UNCHANGED fetchVars

\* the clock advances between and during operations
TickSteps == {1, CACHE_TTL}

Tick ==
    /\ ticks < MaxTicks
    /\ \E d \in TickSteps : now' = now + d
    /\ ticks' = ticks + 1
    /\ UNCHANGED favVars
    /\ UNCHANGED fetchVars

(***************************************************************************)
(* Strings of the fetch workflow are sequences of code points, so that     *)
(* strip, lower, isalnum and the ordering sorted() uses can be computed.   *)
(***************************************************************************)
SeqsUpTo(S, n) == UNION {[1..k -> S] : k \in 0..n}

\* the tag strings a caller may hand to get_cat_image:
\*   "", " ", "a", "B", " a", "a ", "a-", "a_", "-", "_", "!", "a!", "-!", "a a"
ImageTags ==
    {<<>>, <<32>>, <<97>>, <<66>>, <<32, 97>>, <<97, 32>>, <<97, 45>>,
     <<97, 95>>, <<45>>, <<95>>, <<33>>, <<97, 33>>, <<45, 33>>, <<97, 32, 97>>}

\* the tag names the tags endpoint serves: "a", "b", "ab"
TagNames == {<<97>>, <<98>>, <<97, 98>>}

\* the JSON arrays of strings the tags endpoint may answer with
TagArrays == SeqsUpTo(TagNames, MaxTags)

isspace(c) == c = 32
c_isalnum(c) == c \in 48..57 \/ c \in 65..90 \/ c \in 97..122

RECURSIVE lstrip(_)
lstrip(s) == IF s # <<>> /\ isspace(Head(s)) THEN lstrip(Tail(s)) ELSE s

RECURSIVE rstrip(_)
rstrip(s) ==
    IF s # <<>> /\ isspace(s[Len(s)]) THEN rstrip(SubSeq(s, 1, Len(s) - 1)) ELSE s

\* str.strip()
strip(s) == rstrip(lstrip(s))

\* str.lower()
lower(s) == [i \in 1..Len(s) |-> IF s[i] \in 65..90 THEN s[i] + 32 ELSE s[i]]

\* str.isalnum(): every character alphanumeric and at least one character
isalnum(s) == s # <<>> /\ \A i \in 1..Len(s) : c_isalnum(s[i])

\* the condition of line 73, on the stripped and lowered tag
tag_rejected(tag) ==
    /\ ~isalnum(tag)
    /\ ~(\A i \in 1..Len(tag) : ~c_isalnum(tag[i]) => tag[i] \in {45, 95})

\* s < t on Python strings: by code point, a proper prefix is smaller
RECURSIVE str_less(_, _)
str_less(s, t) ==
    IF t = <<>> THEN FALSE
    ELSE IF s = <<>> THEN TRUE
    ELSE IF Head(s) # Head(t) THEN Head(s) < Head(t)
    ELSE str_less(Tail(s), Tail(t))

\* x put into the sorted list l after every element not greater than it
RECURSIVE insert_sorted(_, _)
insert_sorted(x, l) ==
    IF l = <<>> THEN <<x>>
    ELSE IF str_less(x, Head(l)) THEN <<x>> \o l
    ELSE <<Head(l)>> \o insert_sorted(x, Tail(l))

\* sorted(data): stable, ascending
RECURSIVE sorted(_)
sorted(data) ==
    IF data = <<>> THEN <<>>
    ELSE insert_sorted(data[Len(data)], sorted(SubSeq(data, 1, Len(data) - 1)))

\* min(2 ** attempt, 8)
backoff(a) == IF 2 ^ a < 8 THEN 2 ^ a ELSE 8

(***************************************************************************)
(* The rate limiter                                                        *)
(***************************************************************************)
rate_limit_check_stale(t, last, count) ==
    IF t - last < RATE_LIMIT_SECONDS
    THEN [ok |-> FALSE, last_api_call |-> last, api_call_count |-> count]
    ELSE [ok |-> TRUE, last_api_call |-> last, api_call_count |-> count]

rate_limit_check_postponing(t, last, count) ==
    IF t - last < RATE_LIMIT_SECONDS
    THEN [ok |-> FALSE, last_api_call |-> t, api_call_count |-> count]
    ELSE [ok |-> TRUE, last_api_call |-> t, api_call_count |-> count]

\* rate_limit_check() at clock reading t: its verdict and the session state
\* it leaves
rate_limit_check(t, last, count) ==
    IF t - last < RATE_LIMIT_SECONDS
    THEN [ok |-> FALSE, last_api_call |-> last, api_call_count |-> count]
    ELSE [ok |-> TRUE, last_api_call |-> t, api_call_count |-> count]

\* whether the name `logging` resolves in streamlit_app.py: the module
\* imports streamlit, requests, typing, time, datetime, json and hashlib
logging_imported == FALSE

(***************************************************************************)
(* Results and the record of a fetch operation                             *)
(***************************************************************************)
NoUrl == [base |-> "", tag |-> <<>>, width |-> 0, height |-> 0]
ResNone == [kind |-> "none", list |-> <<>>, url |-> NoUrl]
ResList(l) == [kind |-> "list", list |-> l, url |-> NoUrl]
ResUrl(u) == [kind |-> "url", list |-> <<>>, url |-> u]

NoCall ==
    [op |-> "none", cached |-> FALSE, checked |-> FALSE, permitted |-> FALSE,
     since |-> -1, requests |-> 0, outcomes |-> <<>>, sleeps |-> <<>>,
     errors |-> 0, warnings |-> 0, status |-> "returned", exception |-> "",
     result |-> ResNone]

\* seconds since the last permitted call, -1 when there was none
SinceLastPermit == IF permits = <<>> THEN -1 ELSE now - permits[Len(permits)]

NoCache == [valid |-> FALSE, value |-> <<>>, stored |-> 0]

cache_hit_nonempty(c, t) == c.valid /\ c.value # <<>> /\ t < c.stored + CACHE_TTL

\* st.cache_data(ttl=3600): the entry is served while younger than the ttl
cache_hit(c, t) == c.valid /\ t < c.stored + CACHE_TTL

\* what the tags request can come to, and the exception classes it raises
RequestFailures == {"connection_error", "timeout", "http_error", "undecodable"}
ValueFailures == {"non_list"}
TagOutcomes ==
    {[kind |-> "ok", data |-> d] : d \in TagArrays}
        \cup {[kind |-> k, data |-> <<>>] : k \in RequestFailures \cup ValueFailures}

(***************************************************************************)
(* fetch_tags                                                              *)
(***************************************************************************)
\* what the body of fetch_tags last returned: kept when the step returns
\* nothing new (a cache hit, an exception, a call still running)
NoneReturned == [valid |-> FALSE, value |-> <<>>, at |-> 0, limited |-> FALSE]

BodyReturned ==
    tags_returned' =
        IF call'.status = "returned" /\ ~call'.cached
        THEN [valid |-> TRUE, value |-> call'.result.list, at |-> now,
              limited |-> ~call'.permitted]
        ELSE tags_returned

\* the call returns value v: st.cache_data stores it, the operation is over
TagsReturn(c, v) ==
    /\ call' = [c EXCEPT !.status = "returned", !.result = ResList(v)]
    /\ tags_cache' = [valid |-> TRUE, value |-> v, stored |-> now]
    /\ pc' = "idle"

\* an exception leaves fetch_tags: nothing is cached
TagsRaise(c, exc) ==
    /\ call' = [c EXCEPT !.status = "raised", !.exception = exc]
    /\ tags_cache' = tags_cache
    /\ pc' = "idle"

\* fetch_tags() is called: the cache lookup, then lines 36-38
CallFetchTags ==
    /\ pc = "idle"
    /\ calls_left > 0
    /\ calls_left' = calls_left - 1
    /\ attempt' = 0
    /\ UNCHANGED <<now, ticks>>
    /\ UNCHANGED favVars
    /\ LET started == [NoCall EXCEPT !.op = "fetch_tags", !.status = "running"]
           r == rate_limit_check(now, last_api_call, api_call_count)
           checked == [started EXCEPT !.checked = TRUE, !.since = SinceLastPermit,
                                      !.permitted = r.ok]
       IN  IF cache_hit(tags_cache, now)
           THEN /\ call' = [started EXCEPT !.cached = TRUE, !.status = "returned",
                                           !.result = ResList(tags_cache.value)]
                /\ pc' = "idle"
                /\ UNCHANGED <<last_api_call, api_call_count, tags_cache, permits>>
           ELSE /\ last_api_call' = r.last_api_call
                /\ api_call_count' = r.api_call_count
                /\ IF ~r.ok
                   THEN /\ TagsReturn([checked EXCEPT !.warnings = 1], <<>>)
                        /\ permits' = permits
                   ELSE /\ call' = checked
                        /\ pc' = "fetch_tags"
                        /\ permits' = Append(permits, now)
                        /\ tags_cache' = tags_cache
    /\ BodyReturned

\* one pass of the loop of lines 40-62: the request, its handlers, the sleep
FetchTagsAttempt(outcome) ==
    /\ pc = "fetch_tags"
    /\ attempt < MAX_RETRIES
    /\ UNCHANGED <<ticks, last_api_call, api_call_count, permits, calls_left>>
    /\ UNCHANGED favVars
    /\ LET c == [call EXCEPT !.requests = @ + 1,
                             !.outcomes = Append(@, outcome.kind)]
       IN  IF outcome.kind = "ok"
           THEN \* lines 48-52
                /\ TagsReturn(c, sorted(outcome.data))
                /\ UNCHANGED <<now, attempt>>
           ELSE IF outcome.kind \in RequestFailures
           THEN \* lines 53-57, then line 62
                IF ~logging_imported
                THEN /\ TagsRaise(c, "NameError")
                     /\ UNCHANGED <<now, attempt>>
                ELSE IF attempt = MAX_RETRIES - 1
                THEN /\ TagsReturn([c EXCEPT !.errors = @ + 1], <<>>)
                     /\ UNCHANGED <<now, attempt>>
                ELSE /\ call' = [c EXCEPT !.sleeps = Append(@, backoff(attempt))]
                     /\ now' = now + backoff(attempt)
                     /\ attempt' = attempt + 1
                     /\ UNCHANGED <<pc, tags_cache>>
           ELSE \* lines 58-61
                IF ~logging_imported
                THEN /\ TagsRaise(c, "NameError")
                     /\ UNCHANGED <<now, attempt>>
                ELSE /\ TagsReturn([c EXCEPT !.errors = @ + 1], <<>>)
                     /\ UNCHANGED <<now, attempt>>
    /\ BodyReturned

(***************************************************************************)
(* get_cat_image                                                           *)
(***************************************************************************)
\* DEFAULT_IMAGE_SIZE
Sizes == {<<400, 400>>}
HeadOutcomes == {"ok", "connection_error", "http_error"}

\* f"{API_BASE_URL}/cat/{tag}?width={width}&height={height}"
image_url(tag, size) ==
    [base |-> API_BASE_URL, tag |-> tag, width |-> size[1], height |-> size[2]]

head_failed_retried(c, outcome) ==
    [c EXCEPT !.requests = MAX_RETRIES,
              !.outcomes = [i \in 1..MAX_RETRIES |-> outcome],
              !.sleeps = [i \in 1..(MAX_RETRIES - 1) |-> backoff(i - 1)],
              !.errors = 1]

\* lines 83-88 when the HEAD request fails: the handler reports and returns None
head_failed(c, outcome) ==
    [c EXCEPT !.requests = 1, !.outcomes = <<outcome>>, !.errors = 1]

\* get_cat_image(tag, size), the HEAD request coming to `outcome`
GetCatImage(tag, size, outcome) ==
    /\ pc = "idle"
    /\ calls_left > 0
    /\ calls_left' = calls_left - 1
    /\ UNCHANGED <<now, ticks, tags_cache, pc, attempt, tags_returned>>
    /\ UNCHANGED favVars
    /\ LET r == rate_limit_check(now, last_api_call, api_call_count)
           c == [NoCall EXCEPT !.op = "get_cat_image", !.checked = TRUE,
                               !.since = SinceLastPermit, !.permitted = r.ok]
           clean == lower(strip(tag))
       IN  /\ last_api_call' = r.last_api_call
           /\ api_call_count' = r.api_call_count
           /\ permits' = IF r.ok THEN Append(permits, now) ELSE permits
           /\ call' =
                IF ~r.ok THEN [c EXCEPT !.warnings = 1]
                ELSE IF tag_rejected(clean) THEN [c EXCEPT !.errors = 1]
                ELSE IF outcome = "ok"
                THEN [c EXCEPT !.requests = 1, !.outcomes = <<outcome>>,
                               !.result = ResUrl(image_url(clean, size))]
                ELSE head_failed(c, outcome)

(***************************************************************************)
(* Specifications                                                          *)
(***************************************************************************)
\* the session after lines 16-21 have run
SessionInit ==
    /\ now = StartTime
    /\ ticks = 0
    /\ last_api_call = 0
    /\ api_call_count = 0
    /\ tags_cache = NoCache
    /\ tags_returned = NoneReturned
    /\ pc = "idle"
    /\ attempt = 0
    /\ call = NoCall
    /\ permits = <<>>
    /\ fav_log = NoOp

\* the fetch workflow: list_tags and fetch_image sharing one rate limiter
Init ==
    /\ SessionInit
    /\ favorites = EmptyDict
    /\ ops_left = 0
    /\ calls_left = MaxCalls

Next ==
    \/ CallFetchTags
    \/ \E o \in TagOutcomes : FetchTagsAttempt(o)
    \/ \E t \in ImageTags, s \in Sizes, o \in HeadOutcomes : GetCatImage(t, s, o)
    \/ Tick

Spec == Init /\ [][Next]_vars

\* the favorites mapping and its controls
InitFav ==
    /\ SessionInit
    /\ favorites = EmptyDict
    /\ ops_left = MaxOps
    /\ calls_left = 0

NextFav ==
    \/ \E u \in Urls, t \in FavTags : SaveToFavorites(u, t)
    \/ \E k \in DOMAIN favorites : DisplayFavoritesRemove(k)
    \/ \E k \in DOMAIN favorites : FavoritesPageRemove(k)
    \/ Tick

SpecFav == InitFav /\ [][NextFav]_vars

\* the favorites mapping after the fifty URLs of PreloadUrls have been saved
PreloadSet == {PreloadUrls[i] : i \in 1..Len(PreloadUrls)}

SavedAll(t) ==
    [k \in {md5_hexdigest(u) : u \in PreloadSet} |->
        LET u == CHOOSE u \in PreloadSet : md5_hexdigest(u) = k
        IN  [url |-> u, tag |-> "cute", timestamp |-> isoformat(t)]]

InitFull ==
    /\ SessionInit
    /\ favorites = SavedAll(StartTime)
    /\ ops_left = MaxFullOps
    /\ calls_left = 0

SpecFull == InitFull /\ [][NextFav]_vars

(***************************************************************************)
(* Properties                                                              *)
(***************************************************************************)
Finished(op) == call.op = op /\ call.status # "running"
LastOutcome == call.outcomes[Len(call.outcomes)]

\* the empty value of the operation the call record is about
EmptyResult == IF call.op = "fetch_tags" THEN ResList(<<>>) ELSE ResNone

IsSorted(l) == \A i, j \in 1..Len(l) : i < j => ~str_less(l[j], l[i])
NoDuplicates(l) == \A i, j \in 1..Len(l) : i # j => l[i] # l[j]

\* C1: any two permitted calls of a session are at least 2 seconds apart, and
\* a fetch_tags or get_cat_image call that reaches rate_limit_check less than
\* 2 seconds after the last permitted call is refused: it issues no request
\* and returns its empty value.
C1_CallsTwoSecondsApart ==
    /\ \A i, j \in 1..Len(permits) : i < j => permits[j] - permits[i] >= 2
    /\ (call.checked /\ call.since >= 0 /\ call.since < 2) =>
           /\ ~call.permitted
           /\ call.requests = 0
           /\ call.status = "returned"
           /\ call.result = EmptyResult

\* a call refused one second after a permitted one
C1_Witness ==
    /\ call.checked
    /\ call.since = 1
    /\ ~call.permitted
    /\ permits # <<>>

\* C2: a permitted, successful fetch_tags returns a sorted sequence without
\* duplicates, whatever JSON array of strings the endpoint sent.
C2_SortedWithoutDuplicates ==
    (Finished("fetch_tags") /\ call.permitted /\ call.outcomes # <<>>
         /\ LastOutcome = "ok") =>
        /\ call.status = "returned"
        /\ IsSorted(call.result.list)
        /\ NoDuplicates(call.result.list)

\* C3: the favorites mapping never holds more than 50 entries.
C3_AtMostFiftyFavorites == Cardinality(DOMAIN favorites) <= 50

\* C4: a save with a URL that does not start with the trusted base URL leaves
\* the favorites mapping as it was.
C4_UntrustedUrlRejected ==
    (fav_log.op = "save" /\ ~StartsWithBase(fav_log.url)) =>
        favorites = fav_log.before

C6_ThreeFailuresOneError ==
    (Finished("fetch_tags") /\ call.permitted /\ call.outcomes # <<>>
         /\ \A i \in 1..Len(call.outcomes) :
                call.outcomes[i] \in {"connection_error", "timeout", "http_error"}) =>
        /\ call.requests = 3
        /\ call.status = "returned"
        /\ call.result = ResList(<<>>)
        /\ call.errors = 1

\* C7: no exception escapes fetch_tags or get_cat_image: a call whose request
\* failed reports the failure and returns its empty value.
C7_NoFailureEscapes ==
    /\ call.status # "raised"
    /\ (call.status = "returned" /\ call.outcomes # <<>> /\ LastOutcome # "ok") =>
           /\ call.errors >= 1
           /\ call.result = EmptyResult

\* C8: api_call_count equals the number of permitted rate_limit_check calls.
C8_CountsPermittedCalls == api_call_count = Len(permits)

\* C9: every remove control deletes the entry it is drawn for and leaves all
\* other entries unchanged.
C9_RemoveDeletesEntry ==
    (fav_log.op \in {"remove_display", "remove_page"}
         /\ fav_log.key \in DOMAIN fav_log.before) =>
        favorites = [k \in (DOMAIN fav_log.before) \ {fav_log.key} |->
                        fav_log.before[k]]

\* C10: a non-list response ends fetch_tags at once: no request and no backoff
\* wait follows it, one error is reported and the empty sequence is returned.
C10_MalformedNotRetried ==
    (Finished("fetch_tags") /\ call.outcomes # <<>> /\ LastOutcome = "non_list") =>
        /\ call.requests = Len(call.outcomes)
        /\ Len(call.sleeps) = Len(call.outcomes) - 1
        /\ call.status = "returned"
        /\ call.errors = 1
        /\ call.result = ResList(<<>>)

\* a tag made only of alphanumeric characters, "-" and "_", and not empty
WellFormedTag(t) ==
    t # <<>> /\ \A i \in 1..Len(t) : c_isalnum(t[i]) \/ t[i] \in {45, 95}

\* C11: get_cat_image called with a tag that is empty or holds a character
\* other than alphanumerics, "-" and "_" issues no request and returns nothing.
C11_BadTagRejected ==
    [][\A t \in ImageTags, s \in Sizes, o \in HeadOutcomes :
          (GetCatImage(t, s, o) /\ ~WellFormedTag(t)) =>
              (call'.requests = 0 /\ call'.result = ResNone)]_vars

\* the last operation saved a URL that was a favorite already
SavedAgain ==
    /\ fav_log.op = "save"
    /\ \E k \in DOMAIN fav_log.before : fav_log.before[k].url = fav_log.url

\* C12: saving a URL that is already a favorite keeps the key set and every
\* other entry, leaves exactly one entry for the URL, under the same key as
\* before, and gives that entry the time of this save as its timestamp.
C12_ResaveOverwritesTimestamp ==
    SavedAgain =>
        /\ DOMAIN favorites = DOMAIN fav_log.before
        /\ \A k \in DOMAIN favorites :
               k # fav_log.key => favorites[k] = fav_log.before[k]
        /\ {k \in DOMAIN favorites : favorites[k].url = fav_log.url} = {fav_log.key}
        /\ fav_log.before[fav_log.key].url = fav_log.url
        /\ favorites[fav_log.key].timestamp =
               [date |-> fav_log.at \div 86400, time |-> fav_log.at % 86400]

\* a favorite saved again at a later time, beside another favorite
C12_Witness ==
    /\ SavedAgain
    /\ Cardinality(DOMAIN favorites) = 2
    /\ fav_log.before[fav_log.key].timestamp # favorites[fav_log.key].timestamp

\* C13: a permitted fetch_tags ends by returning a sequence, after at most 3
\* requests of which only the last may have succeeded, having waited
\* min(2^k, 8) seconds after the k-th failed attempt (k = 0, 1, ...) whenever
\* another attempt followed, and not after the final attempt.
C13_RetrySchedule ==
    (Finished("fetch_tags") /\ call.permitted) =>
        /\ call.status = "returned"
        /\ call.result.kind = "list"
        /\ call.requests <= 3
        /\ call.requests = Len(call.outcomes)
        /\ \A i \in 1..(Len(call.outcomes) - 1) : call.outcomes[i] # "ok"
        /\ Len(call.sleeps) = call.requests - 1
        /\ \A i \in 1..Len(call.sleeps) :
               call.sleeps[i] = IF 2 ^ (i - 1) < 8 THEN 2 ^ (i - 1) ELSE 8

\* a get_cat_image call whose HEAD request failed
HeadCheckFailed ==
    Finished("get_cat_image") /\ call.outcomes # <<>> /\ LastOutcome # "ok"

FetchTagsCalled == calls_left' = calls_left - 1 /\ call'.op = "fetch_tags"

\* C15: a fetch_tags call made less than one hour after the body of
\* fetch_tags returned a value returns that value, issues no request and
\* neither reads nor changes the rate limiter state, whatever the value is.
C15_TagsCachedForAnHour ==
    [][(FetchTagsCalled /\ tags_returned.valid /\ now < tags_returned.at + 3600) =>
          /\ call'.cached
          /\ call'.status = "returned"
          /\ call'.result = ResList(tags_returned.value)
          /\ call'.requests = 0
          /\ ~call'.checked
          /\ pc' = "idle"
          /\ last_api_call' = last_api_call
          /\ api_call_count' = api_call_count
          /\ permits' = permits]_vars

\* a call served the empty sequence that a rate-limited call returned earlier,
\* at a time when the rate limiter would have permitted a call
C15_Witness ==
    /\ call.op = "fetch_tags"
    /\ call.cached
    /\ call.result = ResList(<<>>)
    /\ tags_returned.limited
    /\ now > tags_returned.at
    /\ now - last_api_call >= 2

\* C16: last_api_call is the time of the last permitted call, whatever calls
\* were refused since, and a call that reaches rate_limit_check at least 2
\* seconds after the last permitted call is permitted.
C16_RefusalsDoNotPostpone ==
    /\ permits # <<>> => last_api_call = permits[Len(permits)]
    /\ (call.checked /\ call.since >= 2) => call.permitted

\* a call permitted 2 seconds after the last permitted one, a second after a
\* fetch_tags call was refused
C16_Witness ==
    /\ call.op = "get_cat_image"
    /\ call.permitted
    /\ call.since = 2
    /\ tags_returned.limited
    /\ tags_returned.at = now - 1
    /\ Len(permits) >= 2

====
